---- MODULE Spec2Model ----
(***************************************************************************)
(* Model of serviceregistration/kubernetes/client/client.go: the minimal   *)
(* Kubernetes client (GetPod, PatchPod) and its request executor (do,      *)
(* attemptRequest) with its retry loop, credential refresh, response       *)
(* classification and stop channel.                                        *)
(***************************************************************************)
EXTENDS Integers, Sequences, FiniteSets, TLC

\* client.go:20
maxRetries == 10

\* How many times the mounted service-account token is rotated in a run.
MaxRotations == 2
\* Longest patch list handed to PatchPod.
MaxPatches == 2

\* Longest patch list in the runs that look at something other than the
\* patch list.
FewPatches == 1

\* How many requests the API server rejects (401, 403) or fails (500, 502,
\* 503, 504) in the runs in which that number is limited.
MaxFaults == 2

\* The goroutines that may call into one Client.
Callers == {"g1", "g2"}

-----------------------------------------------------------------------------
(* Inputs *)

\* client.go:235-239; ZeroOp is the zero value of the string type
\* PatchOperation, which is what a Patch literal without Operation carries.
Unset == "unset"
Add == "add"
Replace == "replace"
ZeroOp == ""
PatchOperations == {Unset, Add, Replace, ZeroOp}

\* A namespace of "%" makes the URL unparsable (invalid escape).
Namespaces == {"", "default", "%"}
PodNames == {"", "vault-0"}
Paths == {"/metadata/labels/vault-active"}
\* "chan" stands for a Go value encoding/json cannot marshal.
Values == {"true", "chan"}

\* client.go:241-245
Patch == [Operation : PatchOperations, Path : Paths, Value : Values]

PatchLists == UNION {[1..n -> Patch] : n \in 0..MaxPatches}

\* The status codes the switch of attemptRequest names, and 400 for "default".
StatusCodes == {200, 201, 202, 204, 401, 403, 404, 500, 502, 503, 504, 400}

\* Bodies of success responses: nothing, a pod document, text that is not
\* JSON.  The API server's body of every other response is a Status document.
PodJSON == "{\"metadata\":{\"name\":\"vault-0\"}}"
RespBodies == {"", PodJSON, "<html>"}
StatusJSON == "{\"kind\":\"Status\"}"

-----------------------------------------------------------------------------
(* Values *)

\* An error value.  kind names the error, attempt is the ordinal (1..) of the
\* network call of the current API call that produced it (0: none), info is
\* the text of sanitizedDebuggingInfo or <<>>.
Err(kind, attempt, info) == [kind |-> kind, attempt |-> attempt, info |-> info]
Nil == Err("nil", 0, <<>>)

\* client.go:23-24
ErrNamespaceUnset == Err("ErrNamespaceUnset", 0, <<>>)
ErrPodNameUnset == Err("ErrPodNameUnset", 0, <<>>)

\* config.go: the snapshot inClusterConfig builds from the environment and
\* the mounted token and CA files at rotation v.
Snapshot(v) == [Host |-> "https://kubernetes", BearerToken |-> v, CACertPool |-> v]

\* client.go:220-231
NoPod == [set |-> FALSE, Name |-> ""]
EmptyPod == [set |-> TRUE, Name |-> ""]

\* http.Request.Body: nil, or a reader with the bytes still unread.
NoBody == [present |-> FALSE, data |-> <<>>]
Reader(bytes) == [present |-> TRUE, data |-> bytes]

NoResp == [StatusCode |-> 0, Body |-> ""]
NoReq == [Method |-> "", URL |-> <<>>, Body |-> NoBody, Authorization |-> -1,
          ContentType |-> ""]
NoSent == [token |-> -1, body |-> <<>>, ca |-> -1]
NoRet == [pod |-> NoPod, err |-> Nil]
NoParams == [namespace |-> "", podName |-> "", patches |-> 0,
             afterStop |-> FALSE]

-----------------------------------------------------------------------------
(* Pure functions *)

\* fmt.Sprintf("/api/v1/namespaces/%s/pods/%s", ...) appended to the host.
Endpoint(host, namespace, podName) ==
    <<host, "/api/v1/namespaces/", namespace, "/pods/", podName>>

\* http.NewRequest fails when the URL does not parse.
URLParses(url) == url[3] # "%"

\* client.go:96-106: the loop that rejects Unset and builds jsonPatches.
\* The result is the first Unset entry's index, or 0.
FirstUnset(patches) ==
    IF \E k \in 1..Len(patches) : patches[k].Operation = Unset
    THEN CHOOSE k \in 1..Len(patches) :
            /\ patches[k].Operation = Unset
            /\ \A j \in 1..(k-1) : patches[j].Operation # Unset
    ELSE 0

\* client.go:101-107: json.Marshal of the list of {op, path, value} maps; one
\* element of the result stands for the bytes of one array entry.
Marshalable(patches) == \A k \in 1..Len(patches) : patches[k].Value # "chan"
Marshal(patches) ==
    [k \in 1..Len(patches) |->
        [op |-> patches[k].Operation, path |-> patches[k].Path,
         value |-> patches[k].Value]]

\* The diagnostics with the request's Authorization header dumped too.
sanitizedDebuggingInfoWithHeaders(rq, reqBodyBytes, rsp) ==
    <<rq.Method, rq.URL, rq.Authorization, reqBodyBytes, rsp.StatusCode,
      rsp.Body>>

\* client.go:257-260
sanitizedDebuggingInfo(rq, reqBodyBytes, rsp) ==
    <<rq.Method, rq.URL, reqBodyBytes, rsp.StatusCode, rsp.Body>>

\* The switch with the default case taken for transient.
ClassifyUnexpectedTransient(status) ==
    CASE status \in {200, 201, 202, 204} -> "success"
      [] status \in {401, 403} -> "auth"
      [] status = 404 -> "notfound"
      [] OTHER -> "transient"

\* The switch with 404 fallen into the transient case.
ClassifyNotFoundTransient(status) ==
    CASE status \in {200, 201, 202, 204} -> "success"
      [] status \in {401, 403} -> "auth"
      [] status \in {404, 500, 502, 503, 504} -> "transient"
      [] OTHER -> "unexpected"

\* client.go:183-207: the switch on resp.StatusCode
Classify(status) ==
    CASE status \in {200, 201, 202, 204} -> "success"
      [] status \in {401, 403} -> "auth"
      [] status = 404 -> "notfound"
      [] status \in {500, 502, 503, 504} -> "transient"
      [] OTHER -> "unexpected"

\* Decode with the io.EOF of an empty body taken for success.
DecodeIgnoringEOF(respBody) ==
    CASE respBody = PodJSON -> [obj |-> [set |-> TRUE, Name |-> "vault-0"], err |-> "nil"]
      [] respBody = "" -> [obj |-> EmptyPod, err |-> "nil"]
      [] OTHER -> [obj |-> EmptyPod, err |-> "SyntaxError"]

\* Decode with every error dropped.
DecodeDroppingErrors(respBody) ==
    CASE respBody = PodJSON -> [obj |-> [set |-> TRUE, Name |-> "vault-0"], err |-> "nil"]
      [] OTHER -> [obj |-> EmptyPod, err |-> "nil"]

\* client.go:217: json.NewDecoder(resp.Body).Decode(ptrToReturnObj)
Decode(respBody) ==
    CASE respBody = PodJSON -> [obj |-> [set |-> TRUE, Name |-> "vault-0"], err |-> "nil"]
      [] respBody = "" -> [obj |-> EmptyPod, err |-> "EOF"]
      [] OTHER -> [obj |-> EmptyPod, err |-> "SyntaxError"]

\* The validation with the podName check testing namespace again.
ValidateParamsNamespaceTwice(namespace, podName) ==
    IF namespace = "" THEN ErrNamespaceUnset
    ELSE IF namespace = "" THEN ErrPodNameUnset
    ELSE Nil

\* client.go:58-64 and 84-90
ValidateParams(namespace, podName) ==
    IF namespace = "" THEN ErrNamespaceUnset
    ELSE IF podName = "" THEN ErrPodNameUnset
    ELSE Nil

\* The test for an empty patch list left out.
NothingToPatchNever(patches) == FALSE

\* client.go:91: len(patches) == 0
NothingToPatch(patches) == Len(patches) = 0

\* The body closed only at the end of the success path, with no defer.
BodyOpenAfterReturnNoDefer(class) == class # "success"

\* client.go:172-180: the deferred resp.Body.Close() runs on every return of
\* attemptRequest that follows a response, so no body is open afterwards.
BodyOpenAfterReturn(class) == FALSE

\* client.go:173-179: the error of Close is handed to logger.Warn and to
\* nothing else; what attemptRequest returns is what its return statement
\* said.
Deferred(err, closeErr) == err

\* The comparison inverted.
SameTokenInverted(fresh, held) == fresh.BearerToken # held.BearerToken

\* client.go:192
SameToken(fresh, held) == fresh.BearerToken = held.BearerToken

\* The loop condition off by one.
LoopCondInclusive(k) == k <= maxRetries

\* client.go:135: the loop condition
LoopCond(k) == k < maxRetries

\* The fetched Config assigned to the field where it is fetched.
HeldAfterFetchAssigned(held, fetched) == fetched

\* client.go:188: "config, err := inClusterConfig()" declares a local; the
\* Config held is what it was.
HeldAfterFetch(held, fetched) == held

\* Only the token taken over from the fetched Config.
AdoptTokenOnly(held, fetched) == [held EXCEPT !.BearerToken = fetched.BearerToken]

\* client.go:196: c.config = config, one pointer assignment
Adopt(held, fetched) == fetched

\* The timer case taken although the stop channel is closed.
TimerWinsAlways(isStopped) == TRUE

\* The select with no timer case.
TimerWinsNever(isStopped) == FALSE

\* client.go:137-141: the select takes the timer case when the timer fires
\* while the stop channel is not closed.
TimerWins(isStopped) == ~isStopped

\* The stop case returning the recorded error.
StopResultLastErr(last) == last

\* client.go:139: what do returns when the stop channel is closed
StopResult(last) == Nil

-----------------------------------------------------------------------------
VARIABLES
    config,     \* Client.config, the Config the executor holds
    stopped,    \* stopCh is closed
    rotation,   \* rotation of the token the Config provider reads now
    procs,      \* the goroutines that use the Client
    env,        \* what the surroundings of the Client do in this run
    pc,         \* where each goroutine is
    op,         \* "GetPod" or "PatchPod"
    body,       \* PatchPod's local body, the marshalled patch list
    req,        \* the *http.Request
    rootCAs,    \* the RootCAs of the transport built by do
    sink,       \* ptrToReturnObj: GetPod's pod
    hasSink,    \* ptrToReturnObj # nil
    i,          \* do's loop counter
    lastErr,    \* do's lastErr
    reqBody,    \* attemptRequest's reqBody
    resp,       \* attemptRequest's resp
    fresh,      \* attemptRequest's config, read from inClusterConfig
    bodyOpen,   \* resp.Body of the attempt is not closed
    warned,     \* the Close of the last attempt failed and was logged
    shouldRetry,\* do's shouldRetry, the verdict of the last attemptRequest
    params,     \* the namespace, podName and number of patches of the call,
                \* and whether stopCh was closed when the call was made
    ret,        \* what GetPod or PatchPod returned
    netCalls,   \* number of client.Do calls of the current API call
    sent,       \* what the last client.Do was handed
    faults      \* how many more requests the API server rejects or fails,
                \* in the runs in which that number is limited

globals == <<config, stopped, rotation, procs, env>>
callVars == <<op, params, body, req, rootCAs, sink, hasSink>>
loopVars == <<i, lastErr>>
verdict == <<shouldRetry>>
attemptVars == <<reqBody, resp, fresh, bodyOpen, warned>>
netVars == <<netCalls, sent, faults>>
vars == <<globals, pc, callVars, loopVars, verdict, attemptVars, ret, netVars>>

\* New (client.go:30-40) succeeded: the Client holds the first snapshot, and
\* the given goroutines use it in the given surroundings.
Start(goroutines, surroundings) ==
    /\ config = Snapshot(0)
    /\ stopped = FALSE
    /\ rotation = 0
    /\ procs = goroutines
    /\ env = surroundings
    /\ pc = [c \in Callers |-> "idle"]
    /\ op = [c \in Callers |-> ""]
    /\ body = [c \in Callers |-> <<>>]
    /\ req = [c \in Callers |-> NoReq]
    /\ rootCAs = [c \in Callers |-> -1]
    /\ sink = [c \in Callers |-> NoPod]
    /\ hasSink = [c \in Callers |-> FALSE]
    /\ i = [c \in Callers |-> 0]
    /\ lastErr = [c \in Callers |-> Nil]
    /\ reqBody = [c \in Callers |-> <<>>]
    /\ resp = [c \in Callers |-> NoResp]
    /\ fresh = [c \in Callers |-> Snapshot(0)]
    /\ bodyOpen = [c \in Callers |-> FALSE]
    /\ warned = [c \in Callers |-> FALSE]
    /\ shouldRetry = [c \in Callers |-> FALSE]
    /\ params = [c \in Callers |-> NoParams]
    /\ ret = [c \in Callers |-> NoRet]
    /\ netCalls = [c \in Callers |-> 0]
    /\ sent = [c \in Callers |-> NoSent]
    /\ faults = IF surroundings.faultsLimited THEN MaxFaults ELSE 0

\* One goroutine uses the Client; patch lists have up to MaxPatches entries;
\* closing a response body never fails.
Init == Start({"g1"}, [patches |-> MaxPatches, closeFails |-> FALSE,
           faultsLimited |-> FALSE])

-----------------------------------------------------------------------------
(* Returning *)

\* GetPod or PatchPod returns before do was called.
ReturnEarly(c, o, pod, err) ==
    /\ pc' = [pc EXCEPT ![c] = "done"]
    /\ op' = [op EXCEPT ![c] = o]
    /\ ret' = [ret EXCEPT ![c] = [pod |-> pod, err |-> err]]
    /\ UNCHANGED <<globals, body, req, rootCAs, sink, hasSink, loopVars,
                   verdict, attemptVars, netVars>>

\* do returns err with the sink holding obj; client.go:71-74 for GetPod,
\* client.go:116 for PatchPod.
CallerResult(o, obj, err) ==
    IF o = "GetPod"
    THEN IF err # Nil THEN [pod |-> NoPod, err |-> err]
                      ELSE [pod |-> obj, err |-> Nil]
    ELSE [pod |-> NoPod, err |-> err]

\* do returns: its locals i and lastErr are gone.
DoReturns(c, obj, err) ==
    /\ pc' = [pc EXCEPT ![c] = "done"]
    /\ ret' = [ret EXCEPT ![c] = CallerResult(op[c], obj, err)]
    /\ i' = [i EXCEPT ![c] = 0]
    /\ lastErr' = [lastErr EXCEPT ![c] = Nil]

\* client.go:144-149: attemptRequest returned (false, err)
Terminal(c, obj, err) ==
    /\ shouldRetry' = [shouldRetry EXCEPT ![c] = FALSE]
    /\ DoReturns(c, obj, err)

-----------------------------------------------------------------------------
(* The two operations *)

\* client.go:54-70, up to the call of do
GetPod(c, namespace, podName) ==
    /\ c \in procs /\ pc[c] = "idle"
    /\ params' = [params EXCEPT ![c] =
          [namespace |-> namespace, podName |-> podName, patches |-> 0,
           afterStop |-> stopped]]
    /\ LET url == Endpoint(config.Host, namespace, podName)
           bad == ValidateParams(namespace, podName)
       IN  IF bad # Nil THEN ReturnEarly(c, "GetPod", NoPod, bad)
           ELSE IF ~URLParses(url)
                THEN ReturnEarly(c, "GetPod", NoPod, Err("url.Error", 0, <<>>))
           ELSE /\ op' = [op EXCEPT ![c] = "GetPod"]
                /\ req' = [req EXCEPT ![c] =
                      [Method |-> "GET", URL |-> url, Body |-> NoBody,
                       Authorization |-> -1, ContentType |-> ""]]
                /\ sink' = [sink EXCEPT ![c] = EmptyPod]
                /\ hasSink' = [hasSink EXCEPT ![c] = TRUE]
                /\ pc' = [pc EXCEPT ![c] = "do"]
                /\ UNCHANGED <<globals, body, rootCAs, loopVars, verdict,
                               attemptVars, ret, netVars>>

\* client.go:80-116, up to the call of do
PatchPod(c, namespace, podName, patches) ==
    /\ c \in procs /\ pc[c] = "idle"
    /\ params' = [params EXCEPT ![c] =
          [namespace |-> namespace, podName |-> podName,
           patches |-> Len(patches), afterStop |-> stopped]]
    /\ LET url == Endpoint(config.Host, namespace, podName)
           bad == ValidateParams(namespace, podName)
       IN  IF bad # Nil THEN ReturnEarly(c, "PatchPod", NoPod, bad)
           ELSE IF NothingToPatch(patches)
                THEN ReturnEarly(c, "PatchPod", NoPod, Nil)
           ELSE IF FirstUnset(patches) # 0
                THEN ReturnEarly(c, "PatchPod", NoPod,
                                 Err("patch operation must be set", 0, <<>>))
           ELSE IF ~Marshalable(patches)
                THEN ReturnEarly(c, "PatchPod", NoPod,
                                 Err("json.UnsupportedTypeError", 0, <<>>))
           ELSE IF ~URLParses(url)
                THEN ReturnEarly(c, "PatchPod", NoPod, Err("url.Error", 0, <<>>))
           ELSE /\ op' = [op EXCEPT ![c] = "PatchPod"]
                /\ body' = [body EXCEPT ![c] = Marshal(patches)]
                /\ req' = [req EXCEPT ![c] =
                      [Method |-> "PATCH", URL |-> url,
                       Body |-> Reader(Marshal(patches)),
                       Authorization |-> -1,
                       ContentType |-> "application/json-patch+json"]]
                /\ sink' = [sink EXCEPT ![c] = NoPod]
                /\ hasSink' = [hasSink EXCEPT ![c] = FALSE]
                /\ pc' = [pc EXCEPT ![c] = "do"]
                /\ UNCHANGED <<globals, rootCAs, loopVars, verdict,
                               attemptVars, ret, netVars>>

-----------------------------------------------------------------------------
(* do: the retry loop *)

\* client.go:120-135: the headers and the transport are set up once, from
\* the Config held at that moment, before the loop is entered.
DoSetup(c) ==
    /\ c \in procs /\ pc[c] = "do"
    /\ req' = [req EXCEPT ![c].Authorization = config.BearerToken]
    /\ rootCAs' = [rootCAs EXCEPT ![c] = config.CACertPool]
    /\ i' = [i EXCEPT ![c] = 0]
    /\ lastErr' = [lastErr EXCEPT ![c] = Nil]
    /\ pc' = [pc EXCEPT ![c] = "attempt"]
    /\ UNCHANGED <<globals, op, params, body, sink, hasSink, verdict,
                   attemptVars, ret, netVars>>

\* client.go:145-152 when attemptRequest returned (true, err): record the
\* error, count the attempt, and either wait for the next one or give up.
LoopNext(c, err) ==
    /\ shouldRetry' = [shouldRetry EXCEPT ![c] = TRUE]
    /\ IF LoopCond(i[c] + 1)
       THEN /\ lastErr' = [lastErr EXCEPT ![c] = err]
            /\ i' = [i EXCEPT ![c] = i[c] + 1]
            /\ pc' = [pc EXCEPT ![c] = "wait"]
            /\ UNCHANGED ret
       ELSE DoReturns(c, sink[c], err)

\* client.go:137-139: the select takes the stop case.  The timer of the other
\* case is created by the select itself with a positive duration, so a stop
\* channel that is closed when the select is entered, or that is closed
\* before the timer fires, is the case taken.
WaitStop(c) ==
    /\ c \in procs /\ pc[c] = "wait"
    /\ stopped
    /\ DoReturns(c, sink[c], StopResult(lastErr[c]))
    /\ UNCHANGED <<globals, callVars, verdict, attemptVars, netVars>>

\* client.go:140-142: the backoff timer fires first.
WaitTimer(c) ==
    /\ c \in procs /\ pc[c] = "wait"
    /\ TimerWins(stopped)
    /\ pc' = [pc EXCEPT ![c] = "attempt"]
    /\ UNCHANGED <<globals, callVars, loopVars, verdict, attemptVars, ret,
                   netVars>>

-----------------------------------------------------------------------------
(* attemptRequest *)

\* client.go:161-168: read what is left of req.Body into reqBody, put a
\* reader over those bytes back, and hand the request to client.Do, which
\* reads the body it is handed to its end.
Send(c) ==
    /\ c \in procs /\ pc[c] = "attempt"
    /\ LET left == IF req[c].Body.present THEN req[c].Body.data ELSE <<>>
       IN  /\ reqBody' = [reqBody EXCEPT ![c] = left]
           /\ sent' = [sent EXCEPT ![c] =
                 [token |-> req[c].Authorization, body |-> left,
                  ca |-> rootCAs[c]]]
           /\ req' = [req EXCEPT ![c].Body =
                 IF req[c].Body.present THEN Reader(<<>>) ELSE NoBody]
    /\ netCalls' = [netCalls EXCEPT ![c] = netCalls[c] + 1]
    /\ warned' = [warned EXCEPT ![c] = FALSE]
    /\ pc' = [pc EXCEPT ![c] = "inflight"]
    /\ UNCHANGED <<globals, op, params, body, rootCAs, sink, hasSink,
                   loopVars, verdict, resp, fresh, bodyOpen, ret, faults>>

\* client.go:168-171: client.Do returns an error, whose text names the
\* method and the URL; there is no response and nothing to close.
TransportError(c) ==
    /\ c \in procs /\ pc[c] = "inflight"
    /\ Terminal(c, sink[c],
                Err("transport", netCalls[c], <<req[c].Method, req[c].URL>>))
    /\ UNCHANGED <<globals, callVars, attemptVars, netVars>>

\* The text of the error built from the response just received.
Info(c, rsp) == sanitizedDebuggingInfo(req[c], reqBody[c], rsp)

\* Whether a Close of a response body can fail in this run.
CloseOutcomes == IF env.closeFails THEN BOOLEAN ELSE {FALSE}

\* client.go:172-180: attemptRequest returns after a response of the given
\* class; the deferred function closes the body and logs a failure to.
CloseBody(c, class, closeErr) ==
    /\ bodyOpen' = [bodyOpen EXCEPT ![c] = BodyOpenAfterReturn(class)]
    /\ warned' = [warned EXCEPT ![c] = closeErr]

\* The API server rejects or fails one more request.
ServerFaults ==
    /\ env.faultsLimited => faults > 0
    /\ faults' = IF env.faultsLimited THEN faults - 1 ELSE faults

\* client.go:184-185, 209-217
RespondSuccess(c, status, rbody) ==
    /\ c \in procs /\ pc[c] = "inflight"
    /\ Classify(status) = "success"
    /\ resp' = [resp EXCEPT ![c] = [StatusCode |-> status, Body |-> rbody]]
    /\ \E closeErr \in CloseOutcomes :
          /\ CloseBody(c, "success", closeErr)
          /\ IF ~hasSink[c]
             THEN /\ Terminal(c, sink[c], Deferred(Nil, closeErr))
                  /\ UNCHANGED sink
             ELSE LET d == Decode(rbody)
                  IN  /\ sink' = [sink EXCEPT ![c] = d.obj]
                      /\ Terminal(c, d.obj,
                            Deferred(IF d.err = "nil" THEN Nil
                                     ELSE Err(d.err, netCalls[c], <<>>),
                                     closeErr))
    /\ UNCHANGED <<globals, op, params, body, req, rootCAs, hasSink,
                   reqBody, fresh, netVars>>

\* client.go:186-188: 401 or 403, the Config is about to be fetched again;
\* the body of the response stays open until attemptRequest returns.
RespondAuth(c, status) ==
    /\ c \in procs /\ pc[c] = "inflight"
    /\ Classify(status) = "auth"
    /\ resp' = [resp EXCEPT ![c] = [StatusCode |-> status, Body |-> StatusJSON]]
    /\ ServerFaults
    /\ bodyOpen' = [bodyOpen EXCEPT ![c] = TRUE]
    /\ pc' = [pc EXCEPT ![c] = "refresh"]
    /\ UNCHANGED <<globals, callVars, loopVars, verdict, reqBody, fresh,
                   warned, ret, netCalls, sent>>

\* client.go:199-200
RespondNotFound(c, status) ==
    /\ c \in procs /\ pc[c] = "inflight"
    /\ Classify(status) = "notfound"
    /\ LET rsp == [StatusCode |-> status, Body |-> StatusJSON]
       IN  /\ resp' = [resp EXCEPT ![c] = rsp]
           /\ \E closeErr \in CloseOutcomes :
                 /\ CloseBody(c, "notfound", closeErr)
                 /\ Terminal(c, sink[c],
                       Deferred(Err("ErrNotFound", netCalls[c], Info(c, rsp)),
                                closeErr))
    /\ UNCHANGED <<globals, callVars, reqBody, fresh, netVars>>

\* client.go:201-203
RespondTransient(c, status) ==
    /\ c \in procs /\ pc[c] = "inflight"
    /\ Classify(status) = "transient"
    /\ ServerFaults
    /\ LET rsp == [StatusCode |-> status, Body |-> StatusJSON]
       IN  /\ resp' = [resp EXCEPT ![c] = rsp]
           /\ \E closeErr \in CloseOutcomes :
                 /\ CloseBody(c, "transient", closeErr)
                 /\ LoopNext(c,
                       Deferred(Err("unexpected status code", netCalls[c],
                                    Info(c, rsp)),
                                closeErr))
    /\ UNCHANGED <<globals, callVars, reqBody, fresh, netCalls, sent>>

\* client.go:204-206
RespondUnexpected(c, status) ==
    /\ c \in procs /\ pc[c] = "inflight"
    /\ Classify(status) = "unexpected"
    /\ LET rsp == [StatusCode |-> status, Body |-> StatusJSON]
       IN  /\ resp' = [resp EXCEPT ![c] = rsp]
           /\ \E closeErr \in CloseOutcomes :
                 /\ CloseBody(c, "unexpected", closeErr)
                 /\ Terminal(c, sink[c],
                       Deferred(Err("unexpected status code", netCalls[c],
                                    Info(c, rsp)),
                                closeErr))
    /\ UNCHANGED <<globals, callVars, reqBody, fresh, netVars>>

\* client.go:188-191: inClusterConfig fails
RefreshFails(c) ==
    /\ c \in procs /\ pc[c] = "refresh"
    /\ \E closeErr \in CloseOutcomes :
          /\ CloseBody(c, "auth", closeErr)
          /\ Terminal(c, sink[c],
                Deferred(Err("ErrNotInCluster", netCalls[c], <<>>), closeErr))
    /\ UNCHANGED <<globals, callVars, reqBody, resp, fresh, netVars>>

\* client.go:188: inClusterConfig returns the snapshot of this moment
RefreshReads(c) ==
    /\ c \in procs /\ pc[c] = "refresh"
    /\ fresh' = [fresh EXCEPT ![c] = Snapshot(rotation)]
    /\ config' = HeldAfterFetch(config, Snapshot(rotation))
    /\ pc' = [pc EXCEPT ![c] = "compare"]
    /\ UNCHANGED <<stopped, rotation, procs, env, callVars, loopVars, verdict, reqBody, resp,
                   bodyOpen, warned, ret, netVars>>

\* client.go:192-195: the comparison with the token of the Config held now
CompareToken(c) ==
    /\ c \in procs /\ pc[c] = "compare"
    /\ IF SameToken(fresh[c], config)
       THEN \E closeErr \in CloseOutcomes :
               /\ CloseBody(c, "auth", closeErr)
               /\ Terminal(c, sink[c],
                     Deferred(Err("bad status code", netCalls[c],
                                  Info(c, resp[c])),
                              closeErr))
       ELSE /\ pc' = [pc EXCEPT ![c] = "store"]
            /\ UNCHANGED <<ret, loopVars, verdict, bodyOpen, warned>>
    /\ UNCHANGED <<globals, callVars, reqBody, resp, fresh, netVars>>

\* client.go:196-198: adopt the fetched Config and ask for a retry
Store(c) ==
    /\ c \in procs /\ pc[c] = "store"
    /\ config' = Adopt(config, fresh[c])
    /\ \E closeErr \in CloseOutcomes :
          /\ CloseBody(c, "auth", closeErr)
          /\ LoopNext(c,
                Deferred(Err("bad status code", netCalls[c], Info(c, resp[c])),
                         closeErr))
    /\ UNCHANGED <<stopped, rotation, procs, env, callVars, reqBody, resp,
                   fresh, netVars>>

-----------------------------------------------------------------------------
(* The caller and the environment *)

\* The caller has the result; the goroutine may call again.
Return(c) ==
    /\ c \in procs /\ pc[c] = "done"
    /\ pc' = [pc EXCEPT ![c] = "idle"]
    /\ op' = [op EXCEPT ![c] = ""]
    /\ body' = [body EXCEPT ![c] = <<>>]
    /\ req' = [req EXCEPT ![c] = NoReq]
    /\ rootCAs' = [rootCAs EXCEPT ![c] = -1]
    /\ sink' = [sink EXCEPT ![c] = NoPod]
    /\ hasSink' = [hasSink EXCEPT ![c] = FALSE]
    /\ i' = [i EXCEPT ![c] = 0]
    /\ lastErr' = [lastErr EXCEPT ![c] = Nil]
    /\ reqBody' = [reqBody EXCEPT ![c] = <<>>]
    /\ resp' = [resp EXCEPT ![c] = NoResp]
    /\ fresh' = [fresh EXCEPT ![c] = Snapshot(0)]
    /\ bodyOpen' = [bodyOpen EXCEPT ![c] = FALSE]
    /\ warned' = [warned EXCEPT ![c] = FALSE]
    /\ ret' = [ret EXCEPT ![c] = NoRet]
    /\ shouldRetry' = [shouldRetry EXCEPT ![c] = FALSE]
    /\ params' = [params EXCEPT ![c] = NoParams]
    /\ netCalls' = [netCalls EXCEPT ![c] = 0]
    /\ sent' = [sent EXCEPT ![c] = NoSent]
    /\ UNCHANGED <<globals, faults>>

\* The owner of stopCh closes it.
Stop ==
    /\ ~stopped
    /\ stopped' = TRUE
    /\ UNCHANGED <<config, rotation, procs, env, pc, callVars, loopVars,
                   verdict, attemptVars, ret, netVars>>

\* The cluster rotates the mounted service-account token.
Rotate ==
    /\ rotation < MaxRotations
    /\ rotation' = rotation + 1
    /\ UNCHANGED <<config, stopped, procs, env, pc, callVars, loopVars,
                   verdict, attemptVars, ret, netVars>>

Next ==
    \/ \E c \in procs, ns \in Namespaces, pn \in PodNames : GetPod(c, ns, pn)
    \/ \E c \in procs :
          /\ pc[c] = "idle"
          /\ \E ns \in Namespaces, pn \in PodNames, ps \in PatchLists :
                Len(ps) <= env.patches /\ PatchPod(c, ns, pn, ps)
    \/ \E c \in procs : DoSetup(c)
    \/ \E c \in procs : Send(c)
    \/ \E c \in procs : TransportError(c)
    \/ \E c \in procs, st \in StatusCodes, rb \in RespBodies :
          RespondSuccess(c, st, rb)
    \/ \E c \in procs, st \in StatusCodes : RespondAuth(c, st)
    \/ \E c \in procs, st \in StatusCodes : RespondNotFound(c, st)
    \/ \E c \in procs, st \in StatusCodes : RespondTransient(c, st)
    \/ \E c \in procs, st \in StatusCodes : RespondUnexpected(c, st)
    \/ \E c \in procs : RefreshFails(c)
    \/ \E c \in procs : RefreshReads(c)
    \/ \E c \in procs : CompareToken(c)
    \/ \E c \in procs : Store(c)
    \/ \E c \in procs : WaitStop(c)
    \/ \E c \in procs : WaitTimer(c)
    \/ \E c \in procs : Return(c)
    \/ Stop
    \/ Rotate

Spec == Init /\ [][Next]_vars

\* A step of goroutine c inside a call: everything but making a call and
\* taking its result.
Step(c) ==
    \/ DoSetup(c)
    \/ Send(c)
    \/ TransportError(c)
    \/ \E st \in StatusCodes, rb \in RespBodies : RespondSuccess(c, st, rb)
    \/ \E st \in StatusCodes : RespondAuth(c, st)
    \/ \E st \in StatusCodes : RespondNotFound(c, st)
    \/ \E st \in StatusCodes : RespondTransient(c, st)
    \/ \E st \in StatusCodes : RespondUnexpected(c, st)
    \/ RefreshFails(c)
    \/ RefreshReads(c)
    \/ CompareToken(c)
    \/ Store(c)
    \/ WaitStop(c)
    \/ WaitTimer(c)

\* A goroutine inside a call keeps running: every client.Do and every
\* inClusterConfig returns, and every backoff timer fires unless the stop
\* channel is closed first.  Nothing obliges a goroutine to make a call, the
\* owner to close stopCh or the cluster to rotate the token.
Fairness == \A c \in Callers : WF_vars(Step(c))

InitLive == Start({"g1"}, [patches |-> FewPatches, closeFails |-> FALSE,
           faultsLimited |-> FALSE])
SpecLive == InitLive /\ [][Next]_vars /\ Fairness

\* Two goroutines use the Client at once; PatchPod is handed no patches, and
\* the API server rejects or fails at most MaxFaults requests.
InitConc == Start(Callers, [patches |-> 0, closeFails |-> FALSE,
           faultsLimited |-> TRUE])
SpecConc == InitConc /\ [][Next]_vars

\* One goroutine; closing a response body may fail.
InitClose == Start({"g1"}, [patches |-> FewPatches, closeFails |-> TRUE,
           faultsLimited |-> FALSE])
SpecClose == InitClose /\ [][Next]_vars

-----------------------------------------------------------------------------
(* Properties *)

SuccessCodes == {200, 201, 202, 204}
AuthCodes == {401, 403}

\* do returned because the stop channel was closed during a wait: the last
\* attempt asked for a retry, attempts were left, and no error came back.
ReturnedOnStop(c) ==
    /\ pc[c] = "done" /\ netCalls[c] >= 1
    /\ shouldRetry[c] /\ netCalls[c] < 10 /\ stopped

\* C1: after an attempt that got 401 or 403 and adopted a Config with another
\* token, the next attempt of the call carries the refreshed token in its
\* Authorization header.
C1_RetryCarriesRefreshedToken ==
    \A c \in Callers :
        (/\ pc[c] = "inflight" /\ i[c] > 0
         /\ lastErr[c].kind = "bad status code")
        => sent[c].token = fresh[c].BearerToken

\* C2: every attempt of a PatchPod call hands the transport the body that was
\* built, and reports that body in its diagnostics.
C2_BodyReplayed ==
    \A c \in Callers :
        (op[c] = "PatchPod" /\ netCalls[c] >= 1)
        => (sent[c].body = body[c] /\ reqBody[c] = body[c])

\* C3: a call never makes more than 10 network calls, and a call that ends
\* with the error of an attempt that asked for a retry made exactly 10, the
\* error being that of the 10th.
C3_AtMostTenAttempts ==
    \A c \in Callers :
        /\ netCalls[c] <= 10
        /\ (pc[c] = "done" /\ shouldRetry[c] /\ ret[c].err # Nil)
           => (netCalls[c] = 10 /\ ret[c].err.attempt = 10)
        /\ (pc[c] = "done" /\ netCalls[c] >= 1 /\ netCalls[c] < 10 /\ ~stopped)
           => ~shouldRetry[c]

C3_Witness ==
    \E c \in Callers :
        /\ pc[c] = "done" /\ netCalls[c] = 10 /\ shouldRetry[c] /\ ~stopped
        /\ ret[c].err.attempt = 10
        /\ ret[c].err.kind = "bad status code"
        /\ config.BearerToken = 2

\* C4: a call that waits between attempts while the stop channel is closed
\* leaves the wait by returning no error, without another network call.
C4_StopReturnsNil ==
    [][\A c \in Callers :
          (pc[c] = "wait" /\ stopped /\ pc'[c] # "wait")
          => (/\ pc'[c] = "done"
              /\ lastErr[c] # Nil
              /\ ret'[c].err = Nil
              /\ netCalls'[c] = netCalls[c])]_vars

C4_Witness ==
    \E c \in Callers :
        /\ ReturnedOnStop(c)
        /\ ret[c].err = Nil
        /\ netCalls[c] >= 2

\* C5 (as claimed): a Pod returned by GetPod with no error was decoded from
\* the body of a success response of that call.
C5_PodOnlyFromSuccess ==
    \A c \in Callers :
        (pc[c] = "done" /\ op[c] = "GetPod" /\ ret[c].pod.set /\ ret[c].err = Nil)
        => (/\ ~shouldRetry[c]
            /\ resp[c].StatusCode \in SuccessCodes
            /\ resp[c].Body = PodJSON
            /\ ret[c].pod.Name = "vault-0")

\* C5 (amended): a Pod returned by GetPod with no error was decoded from the
\* body of a success response of that call, or the call was ended by the stop
\* channel during a wait and the Pod is the empty one.
C5_PodFromSuccessOrStop ==
    \A c \in Callers :
        (pc[c] = "done" /\ op[c] = "GetPod" /\ ret[c].pod.set /\ ret[c].err = Nil)
        => \/ /\ ~shouldRetry[c]
              /\ resp[c].StatusCode \in SuccessCodes
              /\ resp[c].Body = PodJSON
              /\ ret[c].pod.Name = "vault-0"
           \/ /\ ReturnedOnStop(c)
              /\ resp[c].StatusCode \notin SuccessCodes
              /\ ret[c].pod = EmptyPod

C5_Witness ==
    \E c \in Callers :
        /\ pc[c] = "done" /\ op[c] = "GetPod" /\ ret[c].err = Nil
        /\ ret[c].pod.Name = "vault-0"
        /\ netCalls[c] >= 2

\* C6: a 401 or 403 whose refreshed Config has the token of the Config held
\* ends the call with an error of that attempt, with no further network call
\* and the Config held unchanged.
C6_SameTokenIsTerminal ==
    [][\A c \in Callers :
          (/\ pc[c] = "compare" /\ pc'[c] # "compare"
           /\ fresh[c].BearerToken = config.BearerToken)
          => (/\ pc'[c] = "done"
              /\ ~shouldRetry'[c]
              /\ ret'[c].err # Nil
              /\ ret'[c].err.attempt = netCalls[c]
              /\ ret'[c].err.info[4] \in AuthCodes
              /\ netCalls'[c] = netCalls[c]
              /\ config' = config)]_vars

C6_Witness ==
    \E c \in Callers :
        /\ pc[c] = "done" /\ ~shouldRetry[c]
        /\ ret[c].err.kind = "bad status code"
        /\ resp[c].StatusCode \in AuthCodes
        /\ fresh[c].BearerToken = config.BearerToken
        /\ netCalls[c] = 1

\* C7: an attempt that gets 404 ends the call with ErrNotFound, and the call
\* makes no network call after it.
C7_NotFoundIsTerminal ==
    \A c \in Callers :
        resp[c].StatusCode = 404
        => (/\ pc[c] = "done"
            /\ ~shouldRetry[c]
            /\ ret[c].err.kind = "ErrNotFound"
            /\ ret[c].err.attempt = netCalls[c]
            /\ ~ret[c].pod.set)

C7_Witness ==
    \E c \in Callers :
        /\ resp[c].StatusCode = 404 /\ pc[c] = "done"
        /\ ret[c].err.kind = "ErrNotFound"
        /\ netCalls[c] >= 2

\* C8: do returns no error exactly when its last attempt got a success
\* response (decoded, if a sink was given) or when the stop channel ended a
\* wait; any error it returns is the one of the last attempt made.
C8_NilOnlyOnSuccessOrStop ==
    \A c \in Callers :
        (pc[c] = "done" /\ netCalls[c] >= 1)
        => /\ (ret[c].err = Nil) <=>
                 \/ /\ ~shouldRetry[c]
                    /\ resp[c].StatusCode \in SuccessCodes
                    /\ hasSink[c] => resp[c].Body = PodJSON
                 \/ ReturnedOnStop(c)
           /\ ret[c].err # Nil => ret[c].err.attempt = netCalls[c]

C8_Witness ==
    \E c \in Callers :
        /\ pc[c] = "done" /\ netCalls[c] >= 2
        /\ ~shouldRetry[c]
        /\ resp[c].StatusCode \in SuccessCodes
        /\ hasSink[c] /\ resp[c].Body = ""
        /\ ret[c].err.kind = "EOF"

\* C9: PatchPod makes a network call only if every patch has the operation
\* Add or Replace.
C9_OnlyRealOperations ==
    \A c \in Callers :
        (op[c] = "PatchPod" /\ netCalls[c] >= 1)
        => \A k \in 1..Len(body[c]) : body[c][k].op \in {Add, Replace}

\* C10: GetPod and PatchPod called with an empty namespace or pod name return
\* the matching unset error and make no network call.
C10_UnsetParams ==
    \A c \in Callers :
        (pc[c] # "idle" /\ (params[c].namespace = "" \/ params[c].podName = ""))
        => (/\ pc[c] = "done"
            /\ netCalls[c] = 0
            /\ ~ret[c].pod.set
            /\ ret[c].err = IF params[c].namespace = ""
                            THEN ErrNamespaceUnset ELSE ErrPodNameUnset)

C10_Witness ==
    \E c \in Callers :
        /\ pc[c] = "done" /\ op[c] = "PatchPod" /\ stopped
        /\ params[c].namespace # "" /\ params[c].podName = ""
        /\ params[c].patches > 0
        /\ ret[c].err = ErrPodNameUnset

\* C11: PatchPod called with a namespace, a pod name and no patches returns no
\* error without building a request, entering do or making a network call,
\* whatever the Config held and whether or not the stop channel is closed.
C11_EmptyPatchListIsNoOp ==
    \A c \in Callers :
        (/\ pc[c] # "idle" /\ op[c] = "PatchPod"
         /\ params[c].namespace # "" /\ params[c].podName # ""
         /\ params[c].patches = 0)
        => (/\ pc[c] = "done"
            /\ ret[c] = NoRet
            /\ netCalls[c] = 0
            /\ req[c] = NoReq
            /\ rootCAs[c] = -1
            /\ sent[c] = NoSent
            /\ i[c] = 0 /\ lastErr[c] = Nil)

C11_Witness ==
    \E c \in Callers :
        /\ pc[c] = "done" /\ op[c] = "PatchPod"
        /\ params[c].namespace = "%" /\ params[c].podName # ""
        /\ params[c].patches = 0
        /\ ret[c].err = Nil
        /\ stopped /\ config.BearerToken = 1

\* The kind of the error an attempt returns that ends the call on a response
\* of the class of resp[c].
TerminalKinds(c) ==
    CASE Classify(resp[c].StatusCode) = "success" ->
            {IF hasSink[c] THEN Decode(resp[c].Body).err ELSE "nil"}
      [] Classify(resp[c].StatusCode) = "notfound" -> {"ErrNotFound"}
      [] Classify(resp[c].StatusCode) = "auth" ->
            {"ErrNotInCluster", "bad status code"}
      [] OTHER -> {"unexpected status code"}

\* The kind of the error an attempt returns that asks for a retry on a
\* response of the class of resp[c].
RetryKinds(c) ==
    CASE Classify(resp[c].StatusCode) = "transient" -> {"unexpected status code"}
      [] Classify(resp[c].StatusCode) = "auth" -> {"bad status code"}
      [] OTHER -> {}

\* C12: a response body is open only while the attempt that received it has
\* not returned (it is fetching or comparing the Config after 401 or 403):
\* none is open while the call waits, when the next attempt starts or when
\* the call has returned.  When the Close failed, the failure was logged and
\* the attempt's error and retry decision are those of the response's class.
C12_BodyClosedOnReturn ==
    \A c \in Callers :
        /\ bodyOpen[c] => pc[c] \in {"refresh", "compare", "store"}
        /\ pc[c] \in {"refresh", "compare", "store"} => bodyOpen[c]
        /\ warned[c] =>
              /\ pc[c] \in {"wait", "attempt", "done"}
              /\ pc[c] \in {"wait", "attempt"} =>
                    /\ shouldRetry[c]
                    /\ lastErr[c].kind \in RetryKinds(c)
                    /\ lastErr[c].attempt = netCalls[c]
              /\ (pc[c] = "done" /\ shouldRetry[c]) =>
                    /\ RetryKinds(c) # {}
                    /\ \/ ReturnedOnStop(c) /\ ret[c].err = Nil
                       \/ /\ netCalls[c] = maxRetries
                          /\ ret[c].err.kind \in RetryKinds(c)
              /\ (pc[c] = "done" /\ ~shouldRetry[c]) =>
                    ret[c].err.kind \in TerminalKinds(c)

C12_Witness ==
    \E c \in Callers :
        /\ warned[c] /\ ~bodyOpen[c]
        /\ pc[c] = "attempt" /\ i[c] >= 1
        /\ resp[c].StatusCode \in AuthCodes
        /\ lastErr[c].kind = "bad status code"

TransientCodes == {500, 502, 503, 504}

\* The errors goroutine c holds or has been handed.
ErrorsOf(c) == {lastErr[c], ret[c].err}

\* C14: the text of every error of do is empty of request data, or names the
\* method and the URL (a transport error), or is exactly the method, the URL,
\* the request body read by the attempt, the status code and the response
\* body: no header of the request, the Authorization header with the bearer
\* token in particular, is part of it.
C14_NoTokenInErrorText ==
    \A c \in Callers : \A e \in ErrorsOf(c) :
        \/ e.info = <<>>
        \/ e.kind = "transport" /\ e.info = <<req[c].Method, req[c].URL>>
        \/ /\ e.kind \in {"bad status code", "unexpected status code",
                          "ErrNotFound"}
           /\ Len(e.info) = 5
           /\ e.info[1] = req[c].Method
           /\ e.info[2] = req[c].URL
           /\ e.info[3] \in {body[c], <<>>}
           /\ e.info[4] \in StatusCodes \ SuccessCodes
           /\ e.info[5] = StatusJSON

C14_Witness ==
    \E c \in Callers :
        /\ pc[c] = "done" /\ op[c] = "PatchPod"
        /\ ret[c].err.kind = "bad status code"
        /\ ret[c].err.info[3] = body[c] /\ body[c] # <<>>
        /\ sent[c].token = 1 /\ config.BearerToken = 1

\* C15: a call goes from an attempt to the wait before another one only on a
\* response of 500, 502, 503 or 504, or on a 401 or 403 whose fetched Config
\* had another token than the one held and was adopted; a network call is
\* made only by an attempt entered from the start of do or from a wait; every
\* other outcome of an attempt (transport error, failed fetch of the Config,
\* same token, any other status, success, decode error) ends the call in
\* that step with no further network call.
C15_RetryOnlyWhenRetryable ==
    [][\A c \in Callers :
          /\ (pc[c] # "wait" /\ pc'[c] = "wait")
             => \/ /\ pc[c] = "inflight"
                   /\ resp'[c].StatusCode \in TransientCodes
                \/ /\ pc[c] = "store"
                   /\ resp[c].StatusCode \in AuthCodes
                   /\ config' = fresh[c]
          /\ (pc[c] = "inflight" /\ pc'[c] = "refresh")
             => resp'[c].StatusCode \in AuthCodes
          /\ (pc[c] = "compare" /\ pc'[c] = "store")
             => fresh[c].BearerToken # config.BearerToken
          /\ (pc[c] # "attempt" /\ pc'[c] = "attempt")
             => \/ pc[c] = "do" /\ netCalls[c] = 0
                \/ pc[c] = "wait"
          /\ netCalls'[c] > netCalls[c]
             => (pc[c] = "attempt" /\ netCalls'[c] = netCalls[c] + 1)
          /\ (pc[c] = "inflight" /\ pc'[c] \notin {"inflight", "wait", "refresh"})
             => (pc'[c] = "done" /\ netCalls'[c] = netCalls[c])
          /\ (pc[c] = "refresh" /\ pc'[c] \notin {"refresh", "compare"})
             => (pc'[c] = "done" /\ ~shouldRetry'[c]
                 /\ netCalls'[c] = netCalls[c])
          /\ (pc[c] = "compare" /\ pc'[c] \notin {"compare", "store"})
             => (pc'[c] = "done" /\ ~shouldRetry'[c]
                 /\ netCalls'[c] = netCalls[c])
          /\ (pc[c] = "inflight" /\ pc'[c] = "done" /\ shouldRetry'[c])
             => (resp'[c].StatusCode \in TransientCodes
                 /\ netCalls[c] = maxRetries)]_vars

C15_Witness ==
    \E c \in Callers :
        /\ pc[c] = "done" /\ netCalls[c] = 3 /\ ~shouldRetry[c]
        /\ ret[c].err.kind = "transport"
        /\ resp[c].StatusCode \in AuthCodes
        /\ config.BearerToken = 1

\* The call of c is inside an attempt that has been handed to the network.
InAttempt(c) == pc[c] \in {"inflight", "refresh", "compare", "store"}

\* C16: the stop channel is looked at only in the wait before attempts 1 to
\* 9.  A call made with the channel already closed makes its first network
\* call and returns that attempt's outcome when it is terminal (and no error
\* when it asks for a retry); an attempt under way when the channel is closed
\* runs to its own verdict; and once the channel is closed it stays closed, a
\* waiting call makes no further network call, and a call whose attempt is
\* under way never reaches another one: each call makes at most one more.
C16_StopOnlyBetweenAttempts ==
    /\ [](\A c \in Callers :
            (params[c].afterStop /\ pc[c] # "idle")
            => /\ stopped
               /\ netCalls[c] <= 1
               /\ (pc[c] = "done" /\ req[c] # NoReq)
                  => /\ netCalls[c] = 1
                     /\ shouldRetry[c] => ret[c].err = Nil
                     /\ ~shouldRetry[c]
                        => ret[c].err.kind \in TerminalKinds(c) \cup {"transport"})
    /\ [][\A c \in Callers :
            stopped
            => /\ stopped'
               /\ pc[c] = "wait"
                  => (pc'[c] \in {"wait", "done"} /\ netCalls'[c] = netCalls[c])
               /\ InAttempt(c)
                  => /\ InAttempt(c)' \/ pc'[c] \in {"wait", "done"}
                     /\ netCalls'[c] = netCalls[c]
                     /\ pc'[c] = "done"
                        => (~shouldRetry'[c] \/ netCalls[c] = maxRetries)
               /\ pc[c] \in {"do", "attempt"}
                  => pc'[c] \in {"do", "attempt", "inflight"}]_vars

C16_Witness ==
    \E c \in Callers :
        /\ params[c].afterStop /\ pc[c] = "done"
        /\ netCalls[c] = 1 /\ ~shouldRetry[c]
        /\ ret[c].err.kind = "ErrNotFound"

\* C17: the Config held changes only in the step of an attempt that got 401
\* or 403 and fetched a Config with another token than the one held, and it
\* changes to that fetched Config as a whole.
C17_ConfigChangesOnlyOnRefresh ==
    [][config' # config
       => \E c \in Callers :
             /\ pc[c] = "store" /\ pc'[c] # "store"
             /\ resp[c].StatusCode \in AuthCodes
             /\ fresh[c].BearerToken # config.BearerToken
             /\ config' = fresh[c]]_vars

C17_Witness ==
    \E c \in Callers :
        /\ pc[c] = "wait" /\ lastErr[c].kind = "bad status code"
        /\ config = fresh[c] /\ config.BearerToken = 2
        /\ sent[c].token = 0

\* The goroutine is inside a call of GetPod or PatchPod.
InCall(c) == pc[c] \notin {"idle", "done"}

\* C18: every call that has been made returns, whether or not the stop
\* channel is ever closed.
C18_EveryCallReturns ==
    \A c \in Callers : InCall(c) ~> pc[c] = "done"

C18_Witness ==
    \E c \in Callers :
        /\ pc[c] = "done" /\ netCalls[c] = maxRetries /\ ~stopped
        /\ shouldRetry[c]
        /\ ret[c].err.kind = "unexpected status code"

\* C13: with two goroutines in calls at once, the Config held is at every
\* moment one whole snapshot that the provider has produced: its Host,
\* BearerToken and CACertPool are those of one rotation.
C13_ConfigIsOneSnapshot ==
    \E v \in 0..rotation : config = Snapshot(v)

C13_Witness ==
    /\ pc["g1"] = "store" /\ pc["g2"] = "store"
    /\ fresh["g1"] = Snapshot(1) /\ fresh["g2"] = Snapshot(2)
    /\ config = Snapshot(0)

\* C19: a call ends with the error of a 401 or 403 whose fetched token
\* equalled the held one only if the token that was attached to the rejected
\* request is the fetched token.
C19_TerminalOnlyIfSentTokenInvalid ==
    \A c \in Callers :
        (/\ pc[c] = "done" /\ ~shouldRetry[c]
         /\ ret[c].err.kind = "bad status code")
        => sent[c].token = fresh[c].BearerToken

\* C20: the Config held is never replaced by a snapshot the provider produced
\* before the one held.
C20_ConfigNeverRegresses ==
    [][config'.BearerToken >= config.BearerToken]_vars

====
